---- MODULE Spec2Model ----
(***************************************************************************)
(* bsky-deleter: the body of main() in src/main.rs from the author-feed    *)
(* query onwards: fetch one feed page, collect the URIs of the records to  *)
(* delete, report the count, confirm, delete the records one by one.       *)
(***************************************************************************)
EXTENDS Integers, Sequences, FiniteSets, TLC

\* ---------------------------------------------------------------- bounds
\* Longest feed page of arbitrary entries returned by get_author_feed.
MaxFeed == 2
\* Longest feed page of consistent entries (decodable, and either the user's own
\* post or somebody else's post with the user's repost pointer).
MaxLongFeed == 3
\* Timestamps (created_at, now) range over 0..MaxTime.
MaxTime == 1
\* minimum_age ranges over 0..MaxAge.
MaxAge == 1

\* ------------------------------------------------------- Option<T> values
None == << >>
Some(x) == << x >>
is_some(o) == o # None
unwrap(o) == o[1]

\* ------------------------------------------------------------ input data
\* DID of the logged in user and of somebody else.
did == "did:me"
Dids == {"did:me", "did:other"}
\* AT URIs at://<repo>/<collection>/<rkey>: two posts of the user, one post of
\* somebody else, one repost record of the user.
PostUris == {"at://did:me/app.bsky.feed.post/1",
             "at://did:me/app.bsky.feed.post/2",
             "at://did:other/app.bsky.feed.post/1"}
RepostUris == {"at://did:me/app.bsky.feed.repost/1"}
\* The repository an AT URI names.
repo_of(uri) == IF uri = "at://did:other/app.bsky.feed.post/1" THEN "did:other" ELSE "did:me"
Times == 0 .. MaxTime

\* post.record: generic ATProtocol data; either it has the shape of a
\* app.bsky.feed.post record (with its createdAt) or it has not.
Unknowns == {[type |-> "post", createdAt |-> t] : t \in Times}
              \cup {[type |-> "other"]}
\* post.viewer: Option<ViewerState>, with ViewerState.repost: Option<String>.
ViewerStates == {[repost |-> r] : r \in {None} \cup {Some(u) : u \in RepostUris}}
Viewers == {None} \cup {Some(v) : v \in ViewerStates}
\* FeedViewPost, reduced to the fields main() reads; the author of a post is
\* the owner of the repository its URI names.
FeedViewPosts ==
    {p \in [uri : PostUris, author : Dids, record : Unknowns, viewer : Viewers] :
        p.author = repo_of(p.uri)}
\* Entries as the service returns them for a consistent account.
ConsistentPosts ==
    {p \in FeedViewPosts :
        /\ p.record.type = "post"
        /\ \/ p.author = did /\ p.viewer = Some([repost |-> None])
           \/ p.author # did /\ p.viewer # None /\ p.viewer[1].repost # None}
Feeds == UNION {[1 .. n -> FeedViewPosts] : n \in 0 .. MaxFeed}
            \cup UNION {[1 .. n -> ConsistentPosts] : n \in 0 .. MaxLongFeed}

VARIABLES
    pc,                 \* position of main()
    yes,                \* opts.yes
    minimum_age,        \* settings.rules.delete.minimum_age
    feed,               \* output.feed
    now,                \* value read from chrono::Utc::now()
    cutoff_time,        \* cutoff_time
    idx,                \* position of the collecting loop in output.feed
    records_to_delete,  \* records_to_delete
    stdout,             \* lines printed
    prompts,            \* answers obtained from prompt.interact()
    delete_calls,       \* delete_record calls issued, with their state
    deleted,            \* records removed from the repository
    result              \* how main() ended

vars == << pc, yes, minimum_age, feed, now, cutoff_time, idx, records_to_delete,
           stdout, prompts, delete_calls, deleted, result >>

\* ------------------------------------------------------- pure helpers
\* A plausible slip: a payload that is no post decodes to a default record.
try_from_unknown_lenient(unknown) ==
    IF unknown.type = "post" THEN Some([created_at |-> unknown.createdAt])
    ELSE Some([created_at |-> 0])

\* RecordData::try_from_unknown: Ok(RecordData) or Err.
try_from_unknown(unknown) ==
    IF unknown.type = "post" THEN Some([created_at |-> unknown.createdAt]) ELSE None

\* A plausible slip: the operands of the subtraction are swapped.
compute_cutoff_swapped(n, age) == age - n

\* chrono::Utc::now() - minimum_age
compute_cutoff(n, age) == n - age

\* A plausible slip: the comparison is inverted.
too_recent_inverted(record, cutoff) == record.created_at < cutoff

\* A plausible slip: a post created exactly at the cutoff is kept.
too_recent_inclusive(record, cutoff) == record.created_at >= cutoff

\* record.created_at > cutoff_time: the post is too recent.
too_recent(record, cutoff) == record.created_at > cutoff

\* feed_view_post.post.author.did == did
is_own(post) == post.author = did

\* A plausible slip: a target already collected is not collected again.
push_unique(vec, x) ==
    IF \E k \in 1 .. Len(vec) : vec[k] = x THEN vec ELSE Append(vec, x)

\* A plausible slip: the target is inserted at the front.
push_front(vec, x) == << x >> \o vec

\* records_to_delete.push(x)
push(vec, x) == Append(vec, x)

\* A plausible slip: the prompt is shown whatever opts.yes is.
must_prompt_always(y) == TRUE

\* if !opts.yes
must_prompt(y) == ~ y

\* A plausible slip: the test of the answer is inverted.
not_confirmed_inverted(answer) == answer = "Ok(true)"

\* if !prompt.interact()?  (for an answer that is not an error)
not_confirmed(answer) == answer = "Ok(false)"

\* The lines printed.
about_to_delete(n) == [msg |-> "About to delete records", n |-> n]
aborted_line == [msg |-> "Aborted.", n |-> 0]

\* ------------------------------------------------------------- actions
Init ==
    /\ pc = "fetch"
    /\ yes \in BOOLEAN
    /\ minimum_age \in 0 .. MaxAge
    /\ feed = << >>
    /\ now = 0
    /\ cutoff_time = 0
    /\ idx = 1
    /\ records_to_delete = << >>
    /\ stdout = << >>
    /\ prompts = << >>
    /\ delete_calls = << >>
    /\ deleted = {}
    /\ result = "running"

\* agent.api.app.bsky.feed.get_author_feed(..).await?
get_author_feed ==
    /\ pc = "fetch"
    /\ \/ /\ feed' \in Feeds
          /\ pc' = "cutoff"
          /\ UNCHANGED result
       \/ /\ pc' = "done"
          /\ result' = "Err"
          /\ UNCHANGED feed
    /\ UNCHANGED << yes, minimum_age, now, cutoff_time, idx, records_to_delete,
                    stdout, prompts, delete_calls, deleted >>

\* let mut records_to_delete = vec![]; let cutoff_time = ...
cutoff ==
    /\ pc = "cutoff"
    /\ \E n \in Times :
          /\ now' = n
          /\ cutoff_time' = compute_cutoff(n, minimum_age)
    /\ records_to_delete' = << >>
    /\ idx' = 1
    /\ pc' = "collect"
    /\ UNCHANGED << yes, minimum_age, feed, stdout, prompts, delete_calls,
                    deleted, result >>

\* A plausible slip: an entry of somebody else without a repost pointer is
\* skipped like a recent one, where the code panics.
collect_skipping_unresolved ==
    /\ pc = "collect"
    /\ idx <= Len(feed)
    /\ LET post == feed[idx]
           decoded == IF post.record.type = "post"
                      THEN Some([created_at |-> post.record.createdAt]) ELSE None
       IN  IF ~ is_some(decoded)
           THEN /\ pc' = "done"
                /\ result' = "Err"
                /\ UNCHANGED << idx, records_to_delete >>
           ELSE IF unwrap(decoded).created_at > cutoff_time
           THEN /\ idx' = idx + 1
                /\ UNCHANGED << pc, result, records_to_delete >>
           ELSE IF post.author = did
           THEN /\ records_to_delete' = Append(records_to_delete, post.uri)
                /\ idx' = idx + 1
                /\ UNCHANGED << pc, result >>
           ELSE IF ~ is_some(post.viewer) \/ ~ is_some(unwrap(post.viewer).repost)
           THEN /\ idx' = idx + 1
                /\ UNCHANGED << pc, result, records_to_delete >>
           ELSE /\ records_to_delete' =
                       Append(records_to_delete, unwrap(unwrap(post.viewer).repost))
                /\ idx' = idx + 1
                /\ UNCHANGED << pc, result >>
    /\ UNCHANGED << yes, minimum_age, feed, now, cutoff_time, stdout, prompts,
                    delete_calls, deleted >>

\* One iteration of  for feed_view_post in &output.feed { .. }
collect ==
    /\ pc = "collect"
    /\ idx <= Len(feed)
    /\ LET post == feed[idx]
           decoded == try_from_unknown(post.record)
       IN  IF ~ is_some(decoded)
           THEN \* the ? on try_from_unknown returns the error
                /\ pc' = "done"
                /\ result' = "Err"
                /\ UNCHANGED << idx, records_to_delete >>
           ELSE IF too_recent(unwrap(decoded), cutoff_time)
           THEN \* continue
                /\ idx' = idx + 1
                /\ UNCHANGED << pc, result, records_to_delete >>
           ELSE IF is_own(post)
           THEN /\ records_to_delete' = push(records_to_delete, post.uri)
                /\ idx' = idx + 1
                /\ UNCHANGED << pc, result >>
           ELSE IF ~ is_some(post.viewer)
           THEN \* expect("empty viewer for repost")
                /\ pc' = "done"
                /\ result' = "panic"
                /\ UNCHANGED << idx, records_to_delete >>
           ELSE IF ~ is_some(unwrap(post.viewer).repost)
           THEN \* expect("empty repost for viewer")
                /\ pc' = "done"
                /\ result' = "panic"
                /\ UNCHANGED << idx, records_to_delete >>
           ELSE /\ records_to_delete' =
                       push(records_to_delete, unwrap(unwrap(post.viewer).repost))
                /\ idx' = idx + 1
                /\ UNCHANGED << pc, result >>
    /\ UNCHANGED << yes, minimum_age, feed, now, cutoff_time, stdout, prompts,
                    delete_calls, deleted >>

\* println!("About to delete {} records", records_to_delete.len());
report ==
    /\ pc = "collect"
    /\ idx > Len(feed)
    /\ stdout' = Append(stdout, about_to_delete(Len(records_to_delete)))
    /\ pc' = "confirm"
    /\ UNCHANGED << yes, minimum_age, feed, now, cutoff_time, idx,
                    records_to_delete, prompts, delete_calls, deleted, result >>

\* if !opts.yes { if !prompt.interact()? { println!("Aborted."); return Ok(()) } }
confirm ==
    /\ pc = "confirm"
    /\ IF ~ must_prompt(yes)
       THEN /\ pc' = "delete"
            /\ UNCHANGED << prompts, stdout, result >>
       ELSE \E answer \in {"Ok(true)", "Ok(false)", "Err"} :
            /\ prompts' = Append(prompts, answer)
            /\ IF answer = "Err"
               THEN \* the ? on interact() returns the error
                    /\ pc' = "done"
                    /\ result' = "Err"
                    /\ UNCHANGED stdout
               ELSE IF not_confirmed(answer)
               THEN /\ stdout' = Append(stdout, aborted_line)
                    /\ pc' = "done"
                    /\ result' = "Ok"
               ELSE /\ pc' = "delete"
                    /\ UNCHANGED << stdout, result >>
    /\ UNCHANGED << yes, minimum_age, feed, now, cutoff_time, idx,
                    records_to_delete, delete_calls, deleted >>

\* The calls that are issued and not yet completed.
in_flight == {k \in 1 .. Len(delete_calls) : delete_calls[k].state = "pending"}

\* agent.delete_record(uri): the call for the next uri is issued.
delete_record ==
    /\ pc = "delete"
    /\ in_flight = {}
    /\ Len(delete_calls) < Len(records_to_delete)
    /\ delete_calls' = Append(delete_calls,
            [uri |-> records_to_delete[Len(delete_calls) + 1], state |-> "pending"])
    /\ UNCHANGED << pc, yes, minimum_age, feed, now, cutoff_time, idx,
                    records_to_delete, stdout, prompts, deleted, result >>

\* A plausible slip: the error of a call is dropped and the loop goes on.
delete_await_ignoring_error ==
    /\ pc = "delete"
    /\ in_flight # {}
    /\ LET k == Len(delete_calls)
       IN  \/ /\ delete_calls' = [delete_calls EXCEPT ![k].state = "ok"]
              /\ deleted' = deleted \cup {delete_calls[k].uri}
           \/ /\ delete_calls' = [delete_calls EXCEPT ![k].state = "err"]
              /\ UNCHANGED deleted
    /\ UNCHANGED << pc, result, yes, minimum_age, feed, now, cutoff_time, idx,
                    records_to_delete, stdout, prompts >>

\* .await? on the call: it completes, and an error ends main().
delete_await ==
    /\ pc = "delete"
    /\ in_flight # {}
    /\ LET k == Len(delete_calls)
       IN  \/ /\ delete_calls' = [delete_calls EXCEPT ![k].state = "ok"]
              /\ deleted' = deleted \cup {delete_calls[k].uri}
              /\ UNCHANGED << pc, result >>
           \/ /\ delete_calls' = [delete_calls EXCEPT ![k].state = "err"]
              /\ pc' = "done"
              /\ result' = "Err"
              /\ UNCHANGED deleted
    /\ UNCHANGED << yes, minimum_age, feed, now, cutoff_time, idx,
                    records_to_delete, stdout, prompts >>

\* Ok(()) at the end of main().
finish ==
    /\ pc = "delete"
    /\ in_flight = {}
    /\ Len(delete_calls) = Len(records_to_delete)
    /\ pc' = "done"
    /\ result' = "Ok"
    /\ UNCHANGED << yes, minimum_age, feed, now, cutoff_time, idx,
                    records_to_delete, stdout, prompts, delete_calls, deleted >>

Next ==
    \/ get_author_feed
    \/ cutoff
    \/ collect
    \/ report
    \/ confirm
    \/ delete_record
    \/ delete_await
    \/ finish

Spec == Init /\ [][Next]_vars

\* ------------------------------------------------- vocabulary of the claims
\* The cutoff: now minus minimum_age.
Cutoff == now - minimum_age
\* The feed has been fetched and the clock read.
Started == pc \notin {"fetch", "cutoff"}
\* Entry k decodes as a post.
Decodable(k) == feed[k].record.type = "post"
CreatedAt(k) == feed[k].record.createdAt
Recent(k) == Decodable(k) /\ CreatedAt(k) > Cutoff
Old(k) == Decodable(k) /\ CreatedAt(k) <= Cutoff
Own(k) == feed[k].author = did
HasRepost(k) == feed[k].viewer # None /\ feed[k].viewer[1].repost # None
RepostUri(k) == feed[k].viewer[1].repost[1]
\* Entry k is old, of somebody else, and carries no repost pointer.
Unresolvable(k) == Old(k) /\ ~ Own(k) /\ ~ HasRepost(k)
\* The target of an old entry that has one.
TargetOf(k) == IF Own(k) THEN feed[k].uri ELSE RepostUri(k)
\* The loop is at entry idx.
AtEntry == pc = "collect" /\ idx <= Len(feed)
\* The selection succeeded: every entry was classified.
Collected == pc \in {"confirm", "delete"} \/ (pc = "done" /\ stdout # << >>)
\* The targets of the old entries k..Len(feed), in feed order.
RECURSIVE TargetsFrom(_)
TargetsFrom(k) ==
    IF k > Len(feed) THEN << >>
    ELSE IF Old(k) THEN << TargetOf(k) >> \o TargetsFrom(k + 1)
    ELSE TargetsFrom(k + 1)
\* Number of occurrences of x in seq.
Occurrences(seq, x) == Cardinality({k \in 1 .. Len(seq) : seq[k] = x})
\* All delete calls issued so far have completed successfully.
AllDeleted ==
    /\ Len(delete_calls) = Len(records_to_delete)
    /\ \A k \in 1 .. Len(delete_calls) : delete_calls[k].state = "ok"

\* C1: an entry created strictly after the cutoff is kept: the iteration over
\* it adds nothing to records_to_delete and goes on to the next entry, whoever
\* its author is and whether or not it carries a repost pointer.
C1_RecentIsKept ==
    [][ (AtEntry /\ Recent(idx)) =>
            /\ records_to_delete' = records_to_delete
            /\ idx' = idx + 1
            /\ pc' = "collect"
            /\ result' = "running" ]_vars

\* A recent entry of somebody else without viewer, and a recent own entry with a
\* repost pointer, have both been passed and nothing was collected.
C1_Witness ==
    /\ pc = "collect" /\ idx = 3 /\ Len(feed) = 2
    /\ Recent(1) /\ ~ Own(1) /\ feed[1].viewer = None
    /\ Recent(2) /\ Own(2) /\ HasRepost(2)
    /\ records_to_delete = << >>

\* C2: for an entry created at or before the cutoff, the iteration appends the
\* post's own URI when the author is the acting user, and the viewer's repost
\* URI when the author differs and a repost pointer is present.
C2_OldIsTargeted ==
    [][ (AtEntry /\ Old(idx)) =>
            /\ Own(idx) =>
                  /\ records_to_delete' = Append(records_to_delete, feed[idx].uri)
                  /\ idx' = idx + 1
            /\ (~ Own(idx) /\ HasRepost(idx)) =>
                  /\ records_to_delete' = Append(records_to_delete, RepostUri(idx))
                  /\ idx' = idx + 1 ]_vars

\* An own entry created exactly at the cutoff, then an older repost of somebody
\* else's post: both targets were collected.
C2_Witness ==
    /\ pc = "collect" /\ idx = 3 /\ Len(feed) = 2
    /\ Decodable(1) /\ CreatedAt(1) = Cutoff /\ Own(1)
    /\ Decodable(2) /\ CreatedAt(2) < Cutoff /\ ~ Own(2) /\ HasRepost(2)
    /\ records_to_delete = << feed[1].uri, RepostUri(2) >>

\* C3: when some entry at or before the cutoff is of somebody else and has no
\* repost pointer, the run never gets past the collection: nothing is printed,
\* no prompt, no delete call, and it ends in failure; the failure is the panic
\* of the missing pointer unless an earlier entry failed to decode.
C3_UnresolvableAborts ==
    \A k \in 1 .. Len(feed) :
        (Started /\ Unresolvable(k)) =>
            /\ pc \in {"collect", "done"}
            /\ stdout = << >> /\ prompts = << >>
            /\ delete_calls = << >> /\ deleted = {}
            /\ pc = "done" => result \in {"panic", "Err"}
            /\ (pc = "done" /\ \A j \in 1 .. k - 1 : Decodable(j)) => result = "panic"

\* The run panicked at the second entry after the first gave a valid target.
C3_Witness ==
    /\ pc = "done" /\ result = "panic"
    /\ Len(feed) = 2 /\ Old(1) /\ Own(1) /\ Unresolvable(2)
    /\ records_to_delete = << feed[1].uri >>
    /\ delete_calls = << >>

\* C4: when some entry of the feed does not decode as a post, the run fails:
\* no count is printed, no prompt, no delete call, and it ends in error.
C4_MalformedAborts ==
    (Started /\ \E k \in 1 .. Len(feed) : ~ Decodable(k)) =>
        /\ pc \in {"collect", "done"}
        /\ stdout = << >> /\ prompts = << >>
        /\ delete_calls = << >> /\ deleted = {}
        /\ pc = "done" => result \in {"Err", "panic"}

\* The run failed at an undecodable second entry after the first gave a target.
C4_Witness ==
    /\ pc = "done" /\ result = "Err"
    /\ Len(feed) = 2 /\ Old(1) /\ Own(1) /\ ~ Decodable(2)
    /\ records_to_delete = << feed[1].uri >>
    /\ delete_calls = << >>

\* C5 as stated: records_to_delete never holds the same URI twice.
C5_NoDuplicates ==
    \A i, j \in 1 .. Len(records_to_delete) :
        i # j => records_to_delete[i] # records_to_delete[j]

\* C5 amended: every old entry contributes its target once, so a URI occurs in
\* records_to_delete as many times as there are old entries with that target;
\* the list is free of duplicates only when those targets are distinct.
C5_OneTargetPerEntry ==
    Collected =>
        \A u \in PostUris \cup RepostUris :
            Occurrences(records_to_delete, u) =
                Cardinality({k \in 1 .. Len(feed) : Old(k) /\ TargetOf(k) = u})

\* Two old entries with the same target: the target was collected twice.
C5_Witness ==
    /\ Collected
    /\ Len(feed) = 2 /\ Old(1) /\ Old(2) /\ TargetOf(1) = TargetOf(2)
    /\ records_to_delete = << TargetOf(1), TargetOf(1) >>

\* C6: when the prompt answers false, no delete call is ever issued and the
\* run ends normally, having printed the count and "Aborted.".
C6_DeclinedDeletesNothing ==
    (\E k \in 1 .. Len(prompts) : prompts[k] = "Ok(false)") =>
        /\ delete_calls = << >> /\ deleted = {}
        /\ pc = "done" /\ result = "Ok"
        /\ stdout = << about_to_delete(Len(records_to_delete)), aborted_line >>

\* The prompt was declined with a non-empty selection.
C6_Witness ==
    /\ prompts = << "Ok(false)" >>
    /\ records_to_delete # << >>
    /\ pc = "done" /\ result = "Ok"

\* C7 as stated: with a minimum age of zero every entry gives a target,
\* whatever its created_at.
C7_ZeroAgeTargetsAll ==
    (minimum_age = 0 /\ Collected) => Len(records_to_delete) = Len(feed)

\* C7 amended: with a minimum age of zero the cutoff is the instant now, and
\* the entries that give a target are those created at or before now; an entry
\* created after now is kept.
C7_ZeroAgeTargetsUpToNow ==
    (minimum_age = 0 /\ Started) =>
        /\ cutoff_time = now
        /\ Collected =>
              Len(records_to_delete) =
                  Cardinality({k \in 1 .. Len(feed) : CreatedAt(k) <= now})

\* Minimum age zero, one entry created at now and one created after now: only
\* the first gave a target.
C7_Witness ==
    /\ minimum_age = 0 /\ Collected
    /\ Len(feed) = 2
    /\ CreatedAt(1) = now /\ CreatedAt(2) > now
    /\ records_to_delete = << TargetOf(1) >>

\* C8: the collected targets are the targets of the old entries in feed order,
\* and the count printed is the number of collected targets.
C8_FeedOrderAndCount ==
    Collected =>
        LET targets == TargetsFrom(1)
        IN  /\ records_to_delete = targets
            /\ stdout[1] = about_to_delete(Len(targets))

\* The feed [own old, own recent, repost of another's post old] gave
\* [own URI, repost URI] and the count 2.
C8_Witness ==
    /\ Collected
    /\ Len(feed) = 3
    /\ Old(1) /\ Own(1)
    /\ Recent(2) /\ Own(2)
    /\ Old(3) /\ ~ Own(3) /\ HasRepost(3)
    /\ records_to_delete = << feed[1].uri, RepostUri(3) >>
    /\ stdout[1].n = 2

\* C9: the k-th delete call is for the k-th collected URI; a call is issued
\* only when all earlier ones completed successfully; a failed call is the last
\* one and ends the run in error; the records of the successful calls are
\* deleted and stay so.
C9_SequentialFailFast ==
    /\ Len(delete_calls) <= Len(records_to_delete)
    /\ \A k \in 1 .. Len(delete_calls) :
          /\ delete_calls[k].uri = records_to_delete[k]
          /\ k < Len(delete_calls) => delete_calls[k].state = "ok"
          /\ delete_calls[k].state = "err" => (pc = "done" /\ result = "Err")
    /\ deleted = {delete_calls[k].uri : k \in {j \in 1 .. Len(delete_calls) :
                                                 delete_calls[j].state = "ok"}}
    /\ (result = "Ok" /\ delete_calls # << >>) => AllDeleted

\* Of three collected URIs the first was deleted, the second call failed and
\* the third was never issued.
C9_Witness ==
    /\ pc = "done" /\ result = "Err"
    /\ Len(records_to_delete) = 3 /\ Len(delete_calls) = 2
    /\ delete_calls[1].state = "ok" /\ delete_calls[2].state = "err"
    /\ deleted = {records_to_delete[1]}

\* C10: the prompt is consulted at most once, only after every entry was
\* classified and the count printed, and before any delete call; without
\* auto-confirm no delete call is issued unless the prompt answered true; with
\* auto-confirm the prompt is never consulted and every collected URI gets its
\* delete call unless a call fails.
C10_PromptOnceBeforeDeletes ==
    /\ Len(prompts) <= 1
    /\ prompts # << >> =>
          /\ ~ yes
          /\ idx > Len(feed)
          /\ stdout # << >> /\ stdout[1] = about_to_delete(Len(records_to_delete))
    /\ (~ yes /\ (pc = "delete" \/ (pc = "done" /\ stdout # << >>))) =>
          Len(prompts) = 1
    /\ (~ yes /\ delete_calls # << >>) => prompts = << "Ok(true)" >>
    /\ (yes /\ pc = "done" /\ stdout # << >>) =>
          \/ result = "Ok" /\ AllDeleted
          \/ /\ result = "Err"
             /\ delete_calls # << >>
             /\ delete_calls[Len(delete_calls)].state = "err"

\* Without auto-confirm the prompt was answered once with true and the deletes
\* went through.
C10_Witness ==
    /\ ~ yes /\ prompts = << "Ok(true)" >>
    /\ pc = "done" /\ result = "Ok"
    /\ Len(delete_calls) = 2 /\ AllDeleted
====
